---- MODULE Spec2Model ----
(***************************************************************************)
(* Stepped-frequency time-domain IQ acquisition                            *)
(* (scos_actions/actions/acquire_stepped_freq_tdomain_iq.py).              *)
(*                                                                         *)
(* The model follows one SteppedFrequencyTimeDomainIqAcquisition object:   *)
(* its construction from the four parameter lists (__init__) and one call  *)
(* of its entry point (__call__).  Collaborators that live outside the     *)
(* file (the radio, acquire_data of the parent class, the signal           *)
(* measurement_action_completed) are the environment: a call to one of     *)
(* them is a position of the program counter, and its outcome (a value or  *)
(* an exception) is chosen by the environment.                             *)
(*                                                                         *)
(* Specifications:                                           *)
(*   Spec    : the object is constructed from input lists and then called. *)
(*   SpecRun : the entry point is called on an object whose attribute      *)
(*             sorted_measurement_parameters holds a plan; the plan is the *)
(*             input of the sweep loop of __call__.                        *)
(* A third one, SpecDescribe, adds the description property, evaluated on  *)
(* an object whose measurement_params_list holds the steps of the plan.    *)
(***************************************************************************)
EXTENDS Integers, Sequences, FiniteSets, TLC

\* ---------------------------------------------------------------- bounds
MaxLen == 2        \* longest input list / plan
MaxVal == 2        \* frequencies and gains are drawn from 1..MaxVal
MaxSamples == 2    \* longest data array an acquire call returns

\* Python's None, the fill value of zip_longest.  Parameter values are
\* positive, so 0 never collides with one of them.
None == 0

Values == 1..MaxVal

\* sample rates and durations of the input lists, task ids of a call
Rates == {1, 2}
Durations == {1, 2}
TaskIds == {7, 8}

RECURSIVE SeqsUpTo(_, _)
SeqsUpTo(S, n) ==
  IF n = 0 THEN {<<>>}
  ELSE LET shorter == SeqsUpTo(S, n - 1)
       IN  shorter \cup { Append(s, x) : s \in {t \in shorter : Len(t) = n - 1}, x \in S }

\* parameter_names (line 77), in tuple order
parameter_names == <<"center_frequency", "gain", "sample_rate", "duration_ms">>

\* ---------------------------------------------------------------- state
VARIABLES
  parameters,                     \* self.parameters: the four input lists
  sorted_measurement_parameters,  \* self.sorted_measurement_parameters
  num_center_frequencies,         \* self.num_center_frequencies (None until set)
  radio_ready,                    \* does the radio report available
  pc,                             \* position of the program
  error,                          \* the exception that ended __init__ / __call__
  task_id,                        \* argument of __call__ (None before the call)
  recording_id,                   \* loop variable of enumerate (None before the loop)
  it,                             \* number of plan entries the for loop has consumed
  now,                            \* last value utils.get_datetime_str_now returned
  start_time,                     \* local start_time of the current iteration
  acquire_log,                    \* history: acquire_data calls issued
  results,                        \* history: measurement results returned
  notifications,                  \* history: measurement_action_completed.send calls issued
  delivered,                      \* history: number of send calls that returned
  measurement_params_list,        \* self.measurement_params_list, read by description
  doc                             \* what the last evaluation of description gave

vars == <<parameters, sorted_measurement_parameters, num_center_frequencies,
          radio_ready, pc, error, task_id, recording_id, it, now, start_time,
          acquire_log, results, notifications, delivered,
          measurement_params_list, doc>>

NoError == [type |-> "none", field |-> "none", expected |-> 0]

\* description not evaluated yet
NoDoc == [status |-> "none"]

\* ------------------------------------------------------------ __init__
Max(a, b) == IF a >= b THEN a ELSE b
Min(a, b) == IF a <= b THEN a ELSE b

\* (variant: the builtin zip, which stops at the shortest list)
ZipShortest(p) ==
  LET n == Min(Min(Len(p.fcs), Len(p.gains)),
               Min(Len(p.sample_rates), Len(p.durations_ms)))
  IN  [i \in 1..n |-> <<p.fcs[i], p.gains[i], p.sample_rates[i], p.durations_ms[i]>>]

\* itertools.zip_longest(fcs, gains, sample_rates, durations_ms): as long as
\* the longest list, missing entries filled with None (line 83)
ZipLongest(p) ==
  LET n == Max(Max(Len(p.fcs), Len(p.gains)),
               Max(Len(p.sample_rates), Len(p.durations_ms)))
      At(s, i) == IF i <= Len(s) THEN s[i] ELSE None
  IN  [i \in 1..n |-> <<At(p.fcs, i), At(p.gains, i),
                        At(p.sample_rates, i), At(p.durations_ms, i)>>]

\* sortFrequency (lines 80-81): the sort key is the first tuple member
sortFrequency(zipped_params) == zipped_params[1]

\* list.sort compares keys with <.  A comparison with None raises TypeError;
\* a list of two or more entries has every entry compared at least once.
SortRaises(l) ==
  /\ Len(l) >= 2
  /\ \E i \in 1..Len(l) : sortFrequency(l[i]) = None

\* list.sort(key=sortFrequency) (line 84): stable, ascending by key
RECURSIVE InsertStable(_, _)
InsertStable(s, x) ==
  IF s = <<>> THEN <<x>>
  ELSE IF sortFrequency(x) < sortFrequency(s[Len(s)])
       THEN Append(InsertStable(SubSeq(s, 1, Len(s) - 1), x), s[Len(s)])
       ELSE Append(s, x)

RECURSIVE SortByFrequency(_)
SortByFrequency(l) ==
  IF l = <<>> THEN <<>>
  ELSE InsertStable(SortByFrequency(SubSeq(l, 1, Len(l) - 1)), l[Len(l)])

\* `None in params` (line 87) and params.index(None) (line 88)
HasNone(params) == \E j \in 1..Len(params) : params[j] = None
IndexOfNone(params) ==
  CHOOSE j \in 1..Len(params) :
    /\ params[j] = None
    /\ \A k \in 1..(j - 1) : params[k] # None

\* dict(zip(parameter_names, params)) (line 92)
ParamsDict(params) ==
  [center_frequency |-> params[1], gain |-> params[2],
   sample_rate |-> params[3], duration_ms |-> params[4]]

\* The validation loop (lines 86-92).  The append of line 92 is indented
\* under the `if` and follows the raise of line 90: it runs in no iteration,
\* so the accumulated list is never extended.
RECURSIVE ValidationLoop(_, _, _, _)
ValidationLoop(sorted_params, i, acc, n) ==
  IF i > Len(sorted_params)
  THEN [raised |-> FALSE, plan |-> acc, error |-> NoError]
  ELSE LET params == sorted_params[i]
       IN  IF HasNone(params)
           THEN [raised |-> TRUE, plan |-> acc,
                 error |-> [type |-> "TypeError",
                            field |-> parameter_names[IndexOfNone(params)],
                            expected |-> n]]
           ELSE ValidationLoop(sorted_params, i + 1, acc, n)

\* What __init__ (lines 71-95) does with the input lists p
InitOutcome(p) ==
  LET n == Len(p.fcs)
      zipped == ZipLongest(p)
  IN  IF SortRaises(zipped)
      THEN [raised |-> TRUE, plan |-> <<>>,
            error |-> [type |-> "TypeError", field |-> "unorderable", expected |-> 0]]
      ELSE ValidationLoop(SortByFrequency(zipped), 1, <<>>, n)

InputParameters ==
  [fcs : SeqsUpTo(Values, MaxLen), gains : SeqsUpTo(Values, MaxLen),
   sample_rates : SeqsUpTo(Rates, MaxLen), durations_ms : SeqsUpTo(Durations, MaxLen)]

Construct ==
  /\ pc = "new"
  /\ LET out == InitOutcome(parameters)
     IN  /\ sorted_measurement_parameters' = out.plan
         /\ error' = out.error
         /\ IF out.raised
            THEN /\ pc' = "init_error"
                 /\ UNCHANGED num_center_frequencies
            ELSE /\ pc' = "ready"
                 /\ num_center_frequencies' = Len(parameters.fcs)
  /\ UNCHANGED <<measurement_params_list, doc>>
  /\ UNCHANGED <<parameters, radio_ready, task_id, recording_id, it, now,
                 start_time, acquire_log, results, notifications, delivered>>
\* ------------------------------------------------------------ __call__
\* Action.test_required_components: the radio must report available
RequiredComponentsReady == radio_ready

\* (variant: the entry point goes to the sweep without the readiness test)
CallEnterUnchecked ==
  /\ pc = "ready"
  /\ \E t \in TaskIds : task_id' = t
  /\ pc' = "loop"
  /\ UNCHANGED <<measurement_params_list, doc>>
  /\ UNCHANGED <<parameters, sorted_measurement_parameters, num_center_frequencies,
                 radio_ready, error, recording_id, it, now, start_time,
                 acquire_log, results, notifications, delivered>>

\* __call__ is entered and runs self.test_required_components() (lines 97-99)
CallEnter ==
  /\ pc = "ready"
  /\ \E t \in TaskIds : task_id' = t
  /\ IF RequiredComponentsReady
     THEN /\ pc' = "loop"
          /\ UNCHANGED error
     ELSE /\ pc' = "precondition_error"
          /\ error' = [type |-> "PreconditionError", field |-> "none", expected |-> 0]
  /\ UNCHANGED <<measurement_params_list, doc>>
  /\ UNCHANGED <<parameters, sorted_measurement_parameters, num_center_frequencies,
                 radio_ready, recording_id, it, now, start_time,
                 acquire_log, results, notifications, delivered>>

\* (variant: enumerate without start=1 counts from 0)
EnumerateFromZero(index) == index

\* enumerate(..., start=1) (lines 101-103): the number paired with the plan
\* entry at 0-based position index
Enumerate(index) == index + 1

\* utils.get_datetime_str_now (lines 104, 107): the strings a reading of the
\* wall clock can give.  Nothing orders two readings: they can be equal (the
\* resolution of the string) and a later one can be smaller (a clock set back).
Times == {1, 2}

\* The for statement asks the iterator for the next plan entry (lines 101-106).
\* With an entry left: recording_id and measurement_params are bound,
\* start_time is read and acquire_data is called.  Exhausted: __call__ returns.
ForNext ==
  /\ pc = "loop"
  /\ IF it < Len(sorted_measurement_parameters)
     THEN /\ it' = it + 1
          /\ recording_id' = Enumerate(it)
          /\ \E t \in Times : start_time' = t /\ now' = t
          /\ acquire_log' = Append(acquire_log,
                               [recording_id |-> Enumerate(it),
                                measurement_params |-> sorted_measurement_parameters[it + 1]])
          /\ pc' = "acquiring"
     ELSE /\ pc' = "done"
          /\ UNCHANGED <<it, recording_id, start_time, now, acquire_log>>
  /\ UNCHANGED <<measurement_params_list, doc>>
  /\ UNCHANGED <<parameters, sorted_measurement_parameters, num_center_frequencies,
                 radio_ready, error, task_id, results, notifications, delivered>>

\* data arrays an acquire call can return
DataArrays == { [i \in 1..n |-> 1] : n \in 0..MaxSamples }

\* (variant: the annotation call is handed an empty result)
BuildMetadataStaleAnnotation(measurement_result, start, end, task, rec) ==
  [global |-> [schedule_entry |-> "schedule_entry_json",
               sensor |-> "sensor_definition",
               data |-> measurement_result.data,
               start_time |-> start, end_time |-> end, task_id |-> task],
   global_measurement |-> [start_time |-> start, end_time |-> end,
                           data |-> measurement_result.data,
                           recording_id |-> rec],
   capture |-> [data |-> measurement_result.data],
   annotation |-> [data |-> <<>>]]

\* The four metadata calls on a fresh SigMFBuilder (lines 118-122): the
\* metadata is the record of what each call was handed.
BuildMetadata(measurement_result, start, end, task, rec) ==
  [global |-> [schedule_entry |-> "schedule_entry_json",
               sensor |-> "sensor_definition",
               data |-> measurement_result.data,
               start_time |-> start, end_time |-> end, task_id |-> task],
   global_measurement |-> [start_time |-> start, end_time |-> end,
                           data |-> measurement_result.data,
                           recording_id |-> rec],
   capture |-> [data |-> measurement_result.data],
   annotation |-> [data |-> measurement_result.data]]

\* get_sigmf_annotation: the annotations a metadata holds for the result the
\* annotation call was handed; each covers all samples of that result
SigmfAnnotations(annotation_args) ==
  << [annotation_type |-> "SensorAnnotation",
      sample_start |-> 0, sample_count |-> Len(annotation_args.data)],
     [annotation_type |-> "CalibrationAnnotation",
      sample_start |-> 0, sample_count |-> Len(annotation_args.data)] >>

\* keyword arguments of measurement_action_completed.send (lines 123-128)
SendKwargs(task, rec, measurement_result, metadata) ==
  [sender |-> "SteppedFrequencyTimeDomainIqAcquisition",
   task_id |-> task,
   data |-> measurement_result.data,
   metadata |-> metadata]

\* (variant: send is issued but the loop does not wait for the fan-out)
AcquireReturnNoWait ==
  /\ pc = "acquiring"
  /\ \E d \in DataArrays, end_time \in Times :
       LET measurement_result == [data |-> d]
           metadata == BuildMetadata(measurement_result, start_time, end_time,
                                     task_id, recording_id)
       IN  /\ results' = Append(results, measurement_result)
           /\ now' = end_time
           /\ notifications' = Append(notifications,
                 SendKwargs(task_id, recording_id, measurement_result, metadata))
  /\ pc' = "loop"
  /\ UNCHANGED <<measurement_params_list, doc>>
  /\ UNCHANGED <<parameters, sorted_measurement_parameters, num_center_frequencies,
                 radio_ready, error, task_id, recording_id, it, start_time,
                 acquire_log, delivered>>

\* (variant: the step's result is kept and nothing is published for it)
AcquireReturnUnpublished ==
  /\ pc = "acquiring"
  /\ \E d \in DataArrays, end_time \in Times :
       /\ results' = Append(results, [data |-> d])
       /\ now' = end_time
  /\ pc' = "loop"
  /\ UNCHANGED <<measurement_params_list, doc>>
  /\ UNCHANGED <<parameters, sorted_measurement_parameters, num_center_frequencies,
                 radio_ready, error, task_id, recording_id, it, start_time,
                 acquire_log, notifications, delivered>>

\* acquire_data returns (line 106); end_time is read, the metadata is built
\* and measurement_action_completed.send is called (lines 107-128)
AcquireReturn ==
  /\ pc = "acquiring"
  /\ \E d \in DataArrays, end_time \in Times :
       LET measurement_result == [data |-> d]
           metadata == BuildMetadata(measurement_result, start_time, end_time,
                                     task_id, recording_id)
       IN  /\ results' = Append(results, measurement_result)
           /\ now' = end_time
           /\ notifications' = Append(notifications,
                 SendKwargs(task_id, recording_id, measurement_result, metadata))
  /\ pc' = "sending"
  /\ UNCHANGED <<measurement_params_list, doc>>
  /\ UNCHANGED <<parameters, sorted_measurement_parameters, num_center_frequencies,
                 radio_ready, error, task_id, recording_id, it, start_time,
                 acquire_log, delivered>>

\* (variant: the exception of acquire_data is swallowed and the sweep goes on)
AcquireRaiseContinue ==
  /\ pc = "acquiring"
  /\ pc' = "loop"
  /\ UNCHANGED <<measurement_params_list, doc>>
  /\ UNCHANGED <<parameters, sorted_measurement_parameters, num_center_frequencies,
                 radio_ready, error, task_id, recording_id, it, now, start_time,
                 acquire_log, results, notifications, delivered>>

\* acquire_data raises (line 106); no handler in __call__, the exception
\* leaves the entry point
AcquireRaise ==
  /\ pc = "acquiring"
  /\ pc' = "acquire_error"
  /\ error' = [type |-> "AcquisitionError", field |-> "none", expected |-> 0]
  /\ UNCHANGED <<measurement_params_list, doc>>
  /\ UNCHANGED <<parameters, sorted_measurement_parameters, num_center_frequencies,
                 radio_ready, task_id, recording_id, it, now, start_time,
                 acquire_log, results, notifications, delivered>>

\* send returns (line 128): every receiver was called; next iteration
SendReturn ==
  /\ pc = "sending"
  /\ delivered' = delivered + 1
  /\ pc' = "loop"
  /\ UNCHANGED <<measurement_params_list, doc>>
  /\ UNCHANGED <<parameters, sorted_measurement_parameters, num_center_frequencies,
                 radio_ready, error, task_id, recording_id, it, now, start_time,
                 acquire_log, results, notifications>>

\* send raises (a receiver's exception propagates, lines 123-128); no handler
SendRaise ==
  /\ pc = "sending"
  /\ pc' = "send_error"
  /\ error' = [type |-> "ReceiverError", field |-> "none", expected |-> 0]
  /\ UNCHANGED <<measurement_params_list, doc>>
  /\ UNCHANGED <<parameters, sorted_measurement_parameters, num_center_frequencies,
                 radio_ready, task_id, recording_id, it, now, start_time,
                 acquire_log, results, notifications, delivered>>

\* is_multirecording (lines 130-132)
is_multirecording == Len(sorted_measurement_parameters) > 1

\* ------------------------------------------------------ specifications
\* Spec: construction from input lists, then one call of the entry point.
Init ==
  /\ parameters \in InputParameters
  /\ sorted_measurement_parameters = <<>>
  /\ num_center_frequencies = None
  /\ radio_ready \in BOOLEAN
  /\ pc = "new"
  /\ error = NoError
  /\ task_id = None
  /\ recording_id = None
  /\ it = 0
  /\ now = 0
  /\ start_time = None
  /\ acquire_log = <<>>
  /\ results = <<>>
  /\ notifications = <<>>
  /\ delivered = 0
  /\ measurement_params_list = <<>>
  /\ doc = NoDoc

\* After Construct the plan is empty, so of the entry point only CallEnter
\* and the exhausted branch of ForNext can follow (BodyNeverEntered).
Next == Construct \/ CallEnter \/ ForNext

Spec == Init /\ [][Next]_vars

\* SpecRun: one call of the entry point on an object holding a plan.  The
\* loop hands the plan entries on unread; the frequency tells them apart.
StepRecords ==
  [center_frequency : Values, gain : {1}, sample_rate : {1}, duration_ms : {1}]

IsSortedPlan(plan) ==
  \A i \in 1..(Len(plan) - 1) : plan[i].center_frequency <= plan[i + 1].center_frequency

Plans == { plan \in SeqsUpTo(StepRecords, MaxLen) : IsSortedPlan(plan) }

\* the input lists a plan stands for
Unzip(plan) ==
  [fcs |-> [i \in 1..Len(plan) |-> plan[i].center_frequency],
   gains |-> [i \in 1..Len(plan) |-> plan[i].gain],
   sample_rates |-> [i \in 1..Len(plan) |-> plan[i].sample_rate],
   durations_ms |-> [i \in 1..Len(plan) |-> plan[i].duration_ms]]

InitRun ==
  /\ sorted_measurement_parameters \in Plans
  /\ parameters = Unzip(sorted_measurement_parameters)
  /\ num_center_frequencies = Len(sorted_measurement_parameters)
  /\ radio_ready \in BOOLEAN
  /\ pc = "ready"
  /\ error = NoError
  /\ task_id = None
  /\ recording_id = None
  /\ it = 0
  /\ now = 0
  /\ start_time = None
  /\ acquire_log = <<>>
  /\ results = <<>>
  /\ notifications = <<>>
  /\ delivered = 0
  /\ measurement_params_list = <<>>
  /\ doc = NoDoc

NextRun ==
  \/ CallEnter
  \/ ForNext
  \/ AcquireReturn
  \/ AcquireRaise
  \/ SendReturn
  \/ SendRaise

SpecRun == InitRun /\ [][NextRun]_vars

\* the whole of __call__ after Construct; used to check BodyNeverEntered
SpecAll == Init /\ [][Construct \/ NextRun]_vars

BodyNeverEntered == pc \in {"new", "init_error", "ready", "precondition_error", "loop", "done"}

TypeOK ==
  /\ pc \in {"new", "init_error", "ready", "precondition_error", "loop",
             "acquiring", "sending", "acquire_error", "send_error", "done"}
  /\ it \in 0..Len(sorted_measurement_parameters)
  /\ delivered \in 0..Len(notifications)

\* --------------------------------------------------------- description
\* The quotient x / 1e6 of two floats is the double nearest to x / 10^6.
\* With 10^6 = 2^6 * 15625 the sign of its rounding error is read off a
\* residue modulo 15625; the helpers below compute it in the integers.

\* 2^k modulo 15625
RECURSIVE Pow2Mod(_)
Pow2Mod(k) == IF k = 0 THEN 1 ELSE (2 * Pow2Mod(k - 1)) % 15625

\* 2^k
RECURSIVE Pow2(_)
Pow2(k) == IF k = 0 THEN 1 ELSE 2 * Pow2(k - 1)

\* floor(log2(t)) for an integer t >= 1
RECURSIVE FloorLog2(_)
FloorLog2(t) == IF t < 2 THEN 0 ELSE 1 + FloorLog2(t \div 2)

\* the least k >= 0 with x * 2^k >= 10^6, for 1 <= x < 10^6
RECURSIVE ShiftToUnit(_)
ShiftToUnit(x) == IF x >= 1000000 THEN 0 ELSE 1 + ShiftToUnit(2 * x)

\* the binary exponent of the double x / 1e6: floor(log2(x / 10^6)), x >= 1
ExponentOfMillionths(x) ==
  IF x >= 1000000 THEN FloorLog2(x \div 1000000) ELSE 0 - ShiftToUnit(x)

\* What the 53-bit significand of x / 1e6 leaves out of x / 10^6, in 15625ths
\* of its last place: 0 when the double is exact, 1..7812 when the double is
\* below x / 10^6 (rounded down), 7813..15624 when it is above (rounded up).
DivisionResidue(x) ==
  ((x % 15625) * Pow2Mod(46 - ExponentOfMillionths(x))) % 15625

\* "{:.2f}".format(x / 1e6) (lines 148, 150, 176) for an integer x >= 0, given
\* in hundredths.  The text is the double x / 1e6 rounded to two decimals: a
\* double that is exactly on a half goes to the even hundredth, any other
\* double goes to the side of the half it lies on.
Format2f(x) ==
  LET h == x \div 10000
      rem == x % 10000
  IN  IF rem < 5000 THEN h
      ELSE IF rem > 5000 THEN h + 1
      ELSE LET rho == DivisionResidue(x)
           IN  IF rho = 0 THEN (IF h % 2 = 0 THEN h ELSE h + 1)
               ELSE IF rho <= 7812 THEN h
               ELSE h + 1

\* acq_plan_template.format(...) (lines 139-153): the text of one plan entry
PlanLine(measurement_params) ==
  [fc_MHz |-> Format2f(measurement_params.center_frequency),
   gain |-> measurement_params.gain,
   sample_rate_Msps |-> Format2f(measurement_params.sample_rate),
   duration_ms |-> measurement_params.duration_ms]

\* int(d / 1e6 * r) for positive integers d, r (lines 154-156): the double
\* d / 1e6 is multiplied by r, the product is rounded to a double and cut to an
\* integer.  When d * r / 10^6 is not an integer the result is its floor.  When
\* it is an integer T and the double d / 1e6 is below d / 10^6, the product is
\* below T; it is rounded to the double below T, and cut to T - 1, when it is
\* more than half a place (of the doubles below T) away from T.
FloatSamples(d, r) ==
  LET T == (d * r) \div 1000000
      rho == DivisionResidue(d)
  IN  IF (d * r) % 1000000 # 0 \/ T = 0 \/ rho = 0 \/ rho > 7812 THEN T
      ELSE LET eT == IF Pow2(FloorLog2(T)) = T THEN FloorLog2(T) - 1 ELSE FloorLog2(T)
               k == eT - ExponentOfMillionths(d)
               \* r * rho / 15625 as whole part W and remainder Wr
               W == (r \div 15625) * rho + ((r % 15625) * rho) \div 15625
               Wr == ((r % 15625) * rho) % 15625
               below == IF k >= 32 THEN FALSE
                        ELSE IF k >= 1
                             THEN W > Pow2(k - 1) \/ (W = Pow2(k - 1) /\ Wr > 0)
                             ELSE r * rho * Pow2(1 - k) > 15625
           IN  IF below THEN T - 1 ELSE T

StepSamples(measurement_params) ==
  FloatSamples(measurement_params.duration_ms, measurement_params.sample_rate)

\* The loop of description (lines 144-156).  The formatted entry of line 146
\* is not assigned to anything: acquisition_plan stays as it was.
RECURSIVE DescriptionLoop(_, _, _, _)
DescriptionLoop(list, i, acquisition_plan, total_samples) ==
  IF i > Len(list)
  THEN [acquisition_plan |-> acquisition_plan, total_samples |-> total_samples]
  ELSE LET line == PlanLine(list[i])
       IN  DescriptionLoop(list, i + 1, acquisition_plan,
                           total_samples + StepSamples(list[i]))

\* (variant: only the first duration is counted)
SumFirstOnly(numbers) == IF numbers = <<>> THEN 0 ELSE numbers[1]

\* np.sum (line 167)
RECURSIVE Sum(_)
Sum(numbers) ==
  IF numbers = <<>> THEN 0
  ELSE numbers[Len(numbers)] + Sum(SubSeq(numbers, 1, Len(numbers) - 1))

\* (f - srate / 2.0) / 1e6 (lines 160 and 164), a number of MHz, given in
\* units of 1 / 2000000 MHz (half hertz) to stay in the integers
EdgeBelow(f, srate) == 2 * f - srate

\* The description property (lines 134-187) evaluated on the list
\* measurement_params_list with self.num_center_frequencies = n: the values
\* handed to the docstring template, and the two edges it computes.
\* An empty list fails at measurement_params_list[0] (line 158).
Description(list, n) ==
  IF list = <<>>
  THEN [status |-> "IndexError"]
  ELSE LET loop == DescriptionLoop(list, 1, <<>>, 0)
           durations == [i \in 1..Len(list) |-> list[i].duration_ms]
       IN  [status |-> "ok",
            f_low_edge |-> EdgeBelow(list[1].center_frequency, list[1].sample_rate),
            f_high_edge |-> EdgeBelow(list[Len(list)].center_frequency,
                                      list[Len(list)].sample_rate),
            defs |-> [name |-> "name",
                      num_center_frequencies |-> n,
                      center_frequencies |->
                        [i \in 1..Len(list) |-> Format2f(list[i].center_frequency)],
                      acquisition_plan |-> loop.acquisition_plan,
                      min_duration_ms |-> Sum(durations),
                      total_samples |-> loop.total_samples,
                      \* total_samples * 8 / 1e6 MB, given in millionths of a MB
                      filesize_mb |-> loop.total_samples * 8]]

\* between calls of the entry point
Idle == pc \in {"ready", "done", "precondition_error", "acquire_error", "send_error"}

\* (variant: describing uses up the plan)
DescribeConsuming ==
  /\ Idle
  /\ doc' = Description(measurement_params_list, num_center_frequencies)
  /\ sorted_measurement_parameters' = <<>>
  /\ UNCHANGED <<parameters, num_center_frequencies, radio_ready, pc, error,
                 task_id, recording_id, it, now, start_time, acquire_log,
                 results, notifications, delivered, measurement_params_list>>

\* the description property is read (lines 134-187)
Describe ==
  /\ Idle
  /\ doc' = Description(measurement_params_list, num_center_frequencies)
  /\ UNCHANGED <<parameters, sorted_measurement_parameters, num_center_frequencies,
                 radio_ready, pc, error, task_id, recording_id, it, now,
                 start_time, acquire_log, results, notifications, delivered,
                 measurement_params_list>>

\* SpecDescribe: an object whose measurement_params_list holds the steps of
\* its plan, in plan order; description may be read before and after the run.
MeasurementParams ==
  { [center_frequency |-> 700000000, gain |-> 10,
     sample_rate |-> 1000000, duration_ms |-> 10],
    [center_frequency |-> 750000000, gain |-> 10,
     sample_rate |-> 2000000, duration_ms |-> 100] }

MeasurementParamsLists ==
  { list \in SeqsUpTo(MeasurementParams, MaxLen) : IsSortedPlan(list) }

InitDescribe ==
  /\ measurement_params_list \in MeasurementParamsLists
  /\ sorted_measurement_parameters = measurement_params_list
  /\ parameters = Unzip(measurement_params_list)
  /\ num_center_frequencies = Len(measurement_params_list)
  /\ radio_ready \in BOOLEAN
  /\ pc = "ready"
  /\ error = NoError
  /\ task_id = None
  /\ recording_id = None
  /\ it = 0
  /\ now = 0
  /\ start_time = None
  /\ acquire_log = <<>>
  /\ results = <<>>
  /\ notifications = <<>>
  /\ delivered = 0
  /\ doc = NoDoc

NextDescribe ==
  \/ Describe
  \/ CallEnter
  \/ ForNext
  \/ AcquireReturn
  \/ AcquireRaise
  \/ SendReturn
  \/ SendRaise

SpecDescribe == InitDescribe /\ [][NextDescribe]_vars

\* ---------------------------------------------------------------- claims
EqualLengths(p) ==
  /\ Len(p.gains) = Len(p.fcs)
  /\ Len(p.sample_rates) = Len(p.fcs)
  /\ Len(p.durations_ms) = Len(p.fcs)

Constructed == pc \notin {"new", "init_error"}

\* C1: once the action is constructed from four equally long lists of
\* length N >= 1, sorted_measurement_parameters has exactly N entries and is
\* non-decreasing by center_frequency.
C1_PlanCompleteAndSorted ==
  (Constructed /\ EqualLengths(parameters) /\ Len(parameters.fcs) >= 1)
    => /\ Len(sorted_measurement_parameters) = Len(parameters.fcs)
       /\ IsSortedPlan(sorted_measurement_parameters)

\* C2: a run of an action built from equally long lists of length N >= 1,
\* components ready and no call failing, ends having issued exactly N acquire
\* calls and published exactly N notifications.
C2_RunIssuesNAcquiresAndNotifications ==
  (pc = "done" /\ EqualLengths(parameters) /\ Len(parameters.fcs) >= 1)
    => /\ Len(acquire_log) = Len(parameters.fcs)
       /\ Len(notifications) = Len(parameters.fcs)
       /\ delivered = Len(parameters.fcs)

\* C3: the i-th step a run executes is the i-th plan entry and gets
\* recording_id i; a run that ends normally has executed every plan entry, so
\* the ids assigned are exactly 1, 2, ..., N.
C3_RecordingIdsSequential ==
  /\ \A i \in 1..Len(acquire_log) :
       /\ acquire_log[i].recording_id = i
       /\ acquire_log[i].measurement_params = sorted_measurement_parameters[i]
  /\ pc \in {"acquiring", "sending"} => recording_id = Len(acquire_log)
  /\ pc = "done" => Len(acquire_log) = Len(sorted_measurement_parameters)

C3_Witness ==
  /\ pc = "done"
  /\ Len(acquire_log) >= 2
  /\ acquire_log[2].recording_id = 2

C5_MismatchFailsConstruction ==
  ~EqualLengths(parameters)
    => /\ pc \in {"new", "init_error"}
       /\ pc = "init_error" => error.type = "TypeError"
       /\ sorted_measurement_parameters = <<>>
       /\ acquire_log = <<>>
       /\ notifications = <<>>

C5_Witness ==
  /\ pc = "init_error"
  /\ Len(parameters.fcs) = 2
  /\ Len(parameters.gains) = 1
  /\ error.type = "TypeError"

\* the first list, in the order of parameter_names, whose length differs
\* from the length of fcs
FirstDivergingField(p) ==
  IF Len(p.gains) # Len(p.fcs) THEN "gain"
  ELSE IF Len(p.sample_rates) # Len(p.fcs) THEN "sample_rate"
  ELSE IF Len(p.durations_ms) # Len(p.fcs) THEN "duration_ms"
  ELSE "none"

\* C6: the error of a construction with mismatched lengths names the first
\* field, in the order center_frequency, gain, sample_rate, duration_ms, whose
\* count differs from N = len(fcs), and gives N as the expected count.
C6_ErrorNamesFirstDivergingField ==
  pc = "init_error"
    => /\ error.field = FirstDivergingField(parameters)
       /\ error.expected = Len(parameters.fcs)

\* C7: an entry point called while the radio does not report ready ends in a
\* precondition error with no plan entry consumed, no acquire call and no
\* notification.
C7_NotReadyFailsFast ==
  (~radio_ready /\ pc # "ready")
    => /\ pc = "precondition_error"
       /\ error.type = "PreconditionError"
       /\ it = 0
       /\ acquire_log = <<>>
       /\ notifications = <<>>

C7_Witness ==
  /\ pc = "precondition_error"
  /\ ~radio_ready
  /\ Len(sorted_measurement_parameters) >= 1

\* an acquire call was issued, is no longer running and returned no result
AcquireFailed == Len(acquire_log) > Len(results) /\ pc # "acquiring"

\* C8: when the acquire call of step k fails the run ends with that error:
\* k acquire calls were issued in all, the notifications are those of steps
\* 1..k-1, all delivered, and from then on no acquire call is issued (no retry,
\* no later step) and no notification is published or withdrawn.
C8_AcquireFailureAborts ==
  /\ [](AcquireFailed
          => /\ pc = "acquire_error"
             /\ error.type = "AcquisitionError"
             /\ Len(acquire_log) = recording_id
             /\ Len(results) = recording_id - 1
             /\ Len(notifications) = recording_id - 1
             /\ delivered = recording_id - 1)
  /\ [][AcquireFailed => UNCHANGED <<pc, acquire_log, results, notifications, delivered>>]_vars

C8_Witness ==
  /\ pc = "acquire_error"
  /\ recording_id = 2
  /\ Len(sorted_measurement_parameters) >= 2
  /\ Len(notifications) = 1
  /\ delivered = 1

\* C9: at most one acquire call of a run is in flight, and while the acquire
\* call of a step is in flight every earlier step's acquire call has returned
\* and every earlier step's notification has been sent and its fan-out has
\* completed.
C9_StepsDoNotOverlap ==
  /\ Len(acquire_log) - Len(results) \in {0, 1}
  /\ pc = "acquiring"
       => /\ Len(results) = Len(acquire_log) - 1
          /\ Len(notifications) = Len(acquire_log) - 1
          /\ delivered = Len(acquire_log) - 1

C9_Witness ==
  /\ pc = "acquiring"
  /\ recording_id = 2
  /\ delivered = 1

\* C10: every step whose acquire call returned has exactly one notification,
\* issued with its result before anything else happens, the notifications are
\* in plan order, and between steps (and at the end of the run, normal or by a
\* failed acquire) the delivered notifications are exactly those of the
\* completed steps.
C10_NotifiedOncePerCompletedStep ==
  /\ Len(notifications) = Len(results)
  /\ \A i \in 1..Len(notifications) :
       /\ notifications[i].data = results[i].data
       /\ notifications[i].metadata.global_measurement.recording_id = i
  /\ pc \in {"loop", "acquiring", "acquire_error", "done"} => delivered = Len(results)

C10_Witness ==
  /\ pc = "loop"
  /\ it = 1
  /\ Len(sorted_measurement_parameters) >= 2
  /\ Len(notifications) = 1
  /\ delivered = 1

\* C11: in the metadata of every notification, each annotation of type
\* SensorAnnotation or CalibrationAnnotation has a sample_count equal to the
\* number of samples of the data sent with that notification.
C11_AnnotationSampleCount ==
  \A i \in 1..Len(notifications) :
    LET n == notifications[i]
        annotations == SigmfAnnotations(n.metadata.annotation)
    IN  \A k \in 1..Len(annotations) :
          annotations[k].annotation_type \in {"SensorAnnotation", "CalibrationAnnotation"}
            => annotations[k].sample_count = Len(n.data)

C11_Witness ==
  /\ Len(notifications) >= 2
  /\ Len(notifications[1].data) = 2
  /\ Len(notifications[2].data) = 1
  /\ SigmfAnnotations(notifications[1].metadata.annotation)[1].sample_count = 2
  /\ SigmfAnnotations(notifications[2].metadata.annotation)[2].sample_count = 1

\* the record kinds a step's metadata is made of
RecordKinds == {"global", "global_measurement", "capture", "annotation"}

\* C16: over one sweep of N steps the global record is produced once per
\* sweep, not once per step, while the measurement, capture and annotation
\* records are produced once per step: a finished sweep of N >= 1 steps has
\* published N metadata, the first of them with the global record, each with
\* the three per-step records; and at any time the global record is on the
\* first step's metadata only, or every metadata carries the same global
\* record (merged idempotently).
C16_GlobalRecordOncePerSweep ==
  /\ (pc = "done" /\ EqualLengths(parameters) /\ Len(parameters.fcs) >= 1)
       => /\ Len(notifications) = Len(parameters.fcs)
          /\ "global" \in DOMAIN notifications[1].metadata
          /\ \A i \in 1..Len(notifications) :
               (RecordKinds \ {"global"}) \subseteq DOMAIN notifications[i].metadata
  /\ \/ \A i \in 2..Len(notifications) : "global" \notin DOMAIN notifications[i].metadata
     \/ \A i, j \in 1..Len(notifications) :
          /\ "global" \in DOMAIN notifications[i].metadata
          /\ "global" \in DOMAIN notifications[j].metadata
          /\ notifications[i].metadata.global = notifications[j].metadata.global

\* the tuple of input position i
ZipAt(p, i) == <<p.fcs[i], p.gains[i], p.sample_rates[i], p.durations_ms[i]>>

\* C14: for equally long inputs the sorted plan is a permutation of their
\* element-wise zip: the plan has one record per input position, each record
\* is (fcs[i], gains[i], sample_rates[i], durations_ms[i]) of one position i,
\* and every position is used exactly once.
C14_PlanIsPermutationOfZip ==
  (Constructed /\ EqualLengths(parameters))
    => LET n == Len(parameters.fcs)
       IN  /\ Len(sorted_measurement_parameters) = n
           /\ \E f \in [1..n -> 1..n] :
                /\ \A a, b \in 1..n : a # b => f[a] # f[b]
                /\ \A k \in 1..n :
                     sorted_measurement_parameters[k] = ParamsDict(ZipAt(parameters, f[k]))

\* the tuples of l whose center frequency is fc, in the order of l
WithFrequency(l, fc) == LET Hit(t) == t[1] = fc IN SelectSeq(l, Hit)

\* C15: the plan sort is stable: the steps of one center_frequency appear in
\* the plan in the order the inputs gave them, whatever their gain,
\* sample_rate and duration_ms are.
C15_TiesKeepInputOrderInPlan ==
  (Constructed /\ EqualLengths(parameters))
    => \A fc \in Values :
         LET InPlan(step) == step.center_frequency = fc
             zipped == [i \in 1..Len(parameters.fcs) |-> ZipAt(parameters, i)]
             ties == WithFrequency(zipped, fc)
         IN  SelectSeq(sorted_measurement_parameters, InPlan)
               = [k \in 1..Len(ties) |-> ParamsDict(ties[k])]

\* C19: for an action constructed from equally long inputs of length N,
\* is_multirecording is true exactly when N > 1.
C19_MultirecordingIffSeveralSteps ==
  (Constructed /\ EqualLengths(parameters))
    => (is_multirecording <=> Len(parameters.fcs) > 1)

\* numbers[1] + ... + numbers[Len(numbers)]
RECURSIVE TotalOf(_)
TotalOf(numbers) ==
  IF numbers = <<>> THEN 0 ELSE Head(numbers) + TotalOf(Tail(numbers))

\* C12: total_samples of the description is the sum over the steps of
\* floor(duration_ms / 1000 * sample_rate); one step of 100 ms at 1000000
\* samples per second gives 100000.
C12_TotalSamples ==
  doc.status = "ok"
    => doc.defs.total_samples =
         TotalOf([i \in 1..Len(measurement_params_list) |->
                (measurement_params_list[i].duration_ms
                   * measurement_params_list[i].sample_rate) \div 1000])

\* C13: min_duration_ms of the description is the exact sum of duration_ms
\* over the steps of the plan (the durations of the inputs).
C13_MinDurationIsSum ==
  doc.status = "ok"
    => /\ doc.defs.min_duration_ms =
            TotalOf([i \in 1..Len(sorted_measurement_parameters) |->
                   sorted_measurement_parameters[i].duration_ms])
       /\ doc.defs.min_duration_ms = TotalOf(parameters.durations_ms)

C13_Witness ==
  /\ doc.status = "ok"
  /\ Len(measurement_params_list) = 2
  /\ measurement_params_list[1].duration_ms = 10
  /\ measurement_params_list[2].duration_ms = 100
  /\ doc.defs.min_duration_ms = 110

\* C17: the acquisition plan text of the description has one entry per step
\* of the plan, in plan order, each giving that step's frequency, gain, sample
\* rate and duration; for a plan of N >= 1 steps it is not empty.
C17_AcquisitionPlanListsSteps ==
  doc.status = "ok"
    => /\ Len(doc.defs.acquisition_plan) = Len(measurement_params_list)
       /\ \A i \in 1..Len(measurement_params_list) :
            /\ i <= Len(doc.defs.acquisition_plan)
            /\ doc.defs.acquisition_plan[i] = PlanLine(measurement_params_list[i])
       /\ doc.defs.acquisition_plan # <<>>

\* C18: reading the description changes nothing but its own result: no
\* acquire call, no notification, the plan, the input parameters and the
\* position of the program stay as they are; its result is a function of the
\* step list alone, whether it is read before or after a run; and a run
\* leaves the result of an earlier reading as it was.
C18_DescriptionIsPure ==
  /\ [](doc # NoDoc => doc = Description(measurement_params_list, Len(measurement_params_list)))
  /\ [][doc' # doc
          => UNCHANGED <<parameters, sorted_measurement_parameters,
                         num_center_frequencies, radio_ready, pc, error, task_id,
                         recording_id, it, now, start_time, acquire_log, results,
                         notifications, delivered, measurement_params_list>>]_vars
  /\ [][doc # NoDoc /\ pc' # pc => doc' = doc]_vars

C18_Witness ==
  /\ doc.status = "ok"
  /\ pc = "done"
  /\ Len(sorted_measurement_parameters) = 2
  /\ sorted_measurement_parameters = measurement_params_list
  /\ Len(acquire_log) = 2
  /\ delivered = 2

\* C20: the low edge is the first entry's center frequency less half its
\* sample rate, the high edge is the last entry's center frequency plus half
\* its sample rate, so every step's center frequency lies between the edges
\* (edges and frequencies compared in units of half hertz).
C20_EdgesEncloseFrequencies ==
  doc.status = "ok"
    => LET first == measurement_params_list[1]
           last == measurement_params_list[Len(measurement_params_list)]
       IN  /\ doc.f_low_edge = 2 * first.center_frequency - first.sample_rate
           /\ doc.f_high_edge = 2 * last.center_frequency + last.sample_rate
           /\ \A i \in 1..Len(measurement_params_list) :
                /\ doc.f_low_edge <= 2 * measurement_params_list[i].center_frequency
                /\ 2 * measurement_params_list[i].center_frequency <= doc.f_high_edge
====
